---- MODULE Spec2Model ----
(***************************************************************************)
(* Model of the schema-derivation engine of websy: the class               *)
(* ActorSchemaManager (src/src/ActorSchemaManager.mjs).                     *)
(*                                                                         *)
(* A manager holds one configuration tree (this.config), which no method   *)
(* assigns to.  Every public method is a function of that tree; the model  *)
(* has one action per method, which records which method ran (op) and what *)
(* it returned or that it threw (result).                                  *)
(*                                                                         *)
(* JavaScript values are modelled as follows.                              *)
(*   - null is NullV, undefined (a missing key) is UndefV;                 *)
(*   - a mapping whose key order the code can observe (dataset, fields,    *)
(*     field_groups, a group, views, input.fields and every generated      *)
(*     mapping) is Obj(<<[k |-> key, v |-> value], ...>>), keys unique, in  *)
(*     insertion order.  Keys are identifier strings that are neither      *)
(*     integer-like nor names of Object.prototype;                         *)
(*   - a mapping read only by fixed key (the root, actor, input, output, a *)
(*     field declaration, a view) is a record whose DOMAIN is the set of   *)
(*     keys present;                                                       *)
(*   - a scalar carried through unread (default, prefill) is its JSON      *)
(*     text;                                                               *)
(*   - a thrown TypeError is the result Raise.                             *)
(*                                                                         *)
(* dryRun is the manager's option this.dryRun, and files is the list of    *)
(* the files written so far, each with its path and its content.           *)
(***************************************************************************)
EXTENDS Integers, Sequences, FiniteSets, TLC

VARIABLES config, op, result, dryRun, files

vars == <<config, op, result, dryRun, files>>

-----------------------------------------------------------------------------
(* JavaScript values *)

NullV == [null |-> TRUE]

UndefV == [undefined |-> TRUE]

Raise == [raised |-> TRUE]

EmptyRec == [x \in {} |-> TRUE]

IsNull(v) == "null" \in DOMAIN v

IsUndef(v) == "undefined" \in DOMAIN v

IsRaise(r) == "raised" \in DOMAIN r

\* truthiness of a value that is an object, null or undefined
Truthy(v) == ~IsNull(v) /\ ~IsUndef(v)

Obj(es) == [entries |-> es]

EmptyObj == Obj(<<>>)

\* Object.keys(o), in insertion order
Keys(o) == [i \in 1..Len(o.entries) |-> o.entries[i].k]

KeySet(o) == {o.entries[i].k : i \in 1..Len(o.entries)}

\* o[key] on an ordered mapping: the own value, else undefined
Lookup(o, key) ==
    IF \E i \in 1..Len(o.entries) : o.entries[i].k = key
    THEN o.entries[CHOOSE i \in 1..Len(o.entries) : o.entries[i].k = key].v
    ELSE UndefV

\* o[key] = val: an existing key keeps its position, a new key is appended
Put(o, key, val) ==
    IF \E i \in 1..Len(o.entries) : o.entries[i].k = key
    THEN Obj([i \in 1..Len(o.entries) |->
                IF o.entries[i].k = key THEN [k |-> key, v |-> val] ELSE o.entries[i]])
    ELSE Obj(Append(o.entries, [k |-> key, v |-> val]))

\* r.key on a record-shaped mapping: the value, else undefined
Prop(r, key) == IF key \in DOMAIN r THEN r[key] ELSE UndefV

\* (r.key || fallback) for an object-valued key
PropOr(r, key, fallback) ==
    IF key \in DOMAIN r /\ Truthy(r[key]) THEN r[key] ELSE fallback

\* (r.key || fallback) for a string-valued key: the empty string is falsy
StrOr(r, key, fallback) ==
    IF key \in DOMAIN r /\ r[key] # "" THEN r[key] ELSE fallback

\* truthiness of r.key for a string-valued key
HasStr(r, key) == key \in DOMAIN r /\ r[key] # ""

\* truthiness of r.key for a boolean-valued key
IsTrue(r, key) == key \in DOMAIN r /\ r[key] = TRUE

-----------------------------------------------------------------------------
(* Strings *)

UpperOf ==
    [a |-> "A", b |-> "B", c |-> "C", d |-> "D", e |-> "E", f |-> "F", g |-> "G",
     h |-> "H", i |-> "I", j |-> "J", k |-> "K", l |-> "L", m |-> "M", n |-> "N",
     o |-> "O", p |-> "P", q |-> "Q", r |-> "R", s |-> "S", t |-> "T", u |-> "U",
     v |-> "V", w |-> "W", x |-> "X", y |-> "Y", z |-> "Z"]

\* String.prototype.toUpperCase on one ASCII character
toUpperCase(ch) == IF ch \in DOMAIN UpperOf THEN UpperOf[ch] ELSE ch

\* String.prototype.toLowerCase on one ASCII character
toLowerCase(ch) ==
    IF \E lc \in DOMAIN UpperOf : UpperOf[lc] = ch
    THEN CHOOSE lc \in DOMAIN UpperOf : UpperOf[lc] = ch
    ELSE ch

RECURSIVE LowerAll(_)
LowerAll(str) ==
    IF Len(str) = 0 THEN ""
    ELSE toLowerCase(SubSeq(str, 1, 1)) \o LowerAll(SubSeq(str, 2, Len(str)))

\* str.split('_'): the segments between underscores, empty ones included
RECURSIVE SplitFrom(_, _)
SplitFrom(str, cur) ==
    IF Len(str) = 0 THEN <<cur>>
    ELSE IF SubSeq(str, 1, 1) = "_"
         THEN <<cur>> \o SplitFrom(SubSeq(str, 2, Len(str)), "")
         ELSE SplitFrom(SubSeq(str, 2, Len(str)), cur \o SubSeq(str, 1, 1))

Split(str) == SplitFrom(str, "")

\* words.join(' ')
RECURSIVE Join(_)
Join(words) ==
    IF Len(words) = 0 THEN ""
    ELSE IF Len(words) = 1 THEN words[1]
    ELSE words[1] \o " " \o Join(Tail(words))

\* Capitalize that keeps the case of the rest of the word
Capitalize_KeepRest(word) ==
    IF Len(word) = 0 THEN ""
    ELSE toUpperCase(SubSeq(word, 1, 1)) \o SubSeq(word, 2, Len(word))

\* word.charAt(0).toUpperCase() + word.slice(1).toLowerCase()
Capitalize(word) ==
    IF Len(word) = 0 THEN ""
    ELSE toUpperCase(SubSeq(word, 1, 1)) \o LowerAll(SubSeq(word, 2, Len(word)))

toTitleCase(str) ==
    LET words == Split(str)
    IN  Join([i \in 1..Len(words) |-> Capitalize(words[i])])

\* str.endsWith(suffix)
endsWith(str, suffix) ==
    /\ Len(str) >= Len(suffix)
    /\ SubSeq(str, Len(str) - Len(suffix) + 1, Len(str)) = suffix

-----------------------------------------------------------------------------
(* Field Normalizer *)

\* inferFormat that tries the name rules before the array flag
inferFormat_NameFirst(fieldName, fieldConfig) ==
    IF HasStr(fieldConfig, "format") THEN fieldConfig.format
    ELSE IF endsWith(fieldName, "_url") \/ fieldName = "website" THEN "link"
    ELSE IF endsWith(fieldName, "_links") THEN "array"
    ELSE IF IsTrue(fieldConfig, "array") THEN "array"
    ELSE "text"

inferFormat(fieldName, fieldConfig) ==
    IF HasStr(fieldConfig, "format") THEN fieldConfig.format
    ELSE IF IsTrue(fieldConfig, "array") THEN "array"
    ELSE IF endsWith(fieldName, "_url") \/ fieldName = "website" THEN "link"
    ELSE IF endsWith(fieldName, "_links") THEN "array"
    ELSE "text"

inferType(fieldConfig) ==
    IF HasStr(fieldConfig, "type") THEN fieldConfig.type
    ELSE IF IsTrue(fieldConfig, "array") THEN "array"
    ELSE "string"

inferEditor(fieldConfig) ==
    IF HasStr(fieldConfig, "editor") THEN fieldConfig.editor
    ELSE LET type == StrOr(fieldConfig, "type", "string")
         IN  CASE type \in {"integer", "number"} -> "number"
               [] type = "boolean" -> "checkbox"
               [] type = "array" -> "stringList"
               [] OTHER -> "textfield"

-----------------------------------------------------------------------------
(* Field Aggregator *)

\* (this.config.dataset || {}); cfg is a non-null root
DatasetSection(cfg) ==
    IF "dataset" \in DOMAIN cfg /\ Truthy(cfg.dataset) THEN cfg.dataset ELSE EmptyObj

\* (dataset.key || {}) on the ordered dataset section
DatasetPart(dataset, key) ==
    IF Truthy(Lookup(dataset, key)) THEN Lookup(dataset, key) ELSE EmptyObj

\* WithFromGroup without the tag: { ...fieldConfig }
WithFromGroup_Untagged(fieldConfig, groupName) ==
    IF Truthy(fieldConfig) THEN fieldConfig ELSE EmptyRec

\* { ...fieldConfig, _fromGroup: groupName }; spreading null copies nothing
WithFromGroup(fieldConfig, groupName) ==
    LET src == IF Truthy(fieldConfig) THEN fieldConfig ELSE EmptyRec
    IN  [key \in DOMAIN src \cup {"_fromGroup"} |->
            IF key = "_fromGroup" THEN groupName ELSE src[key]]

\* MergeGroupFields that leaves alone a name already in fields
RECURSIVE MergeGroupFields_KeepFirst(_, _, _, _)
MergeGroupFields_KeepFirst(fields, groupName, groupFields, i) ==
    IF i > Len(groupFields.entries) THEN fields
    ELSE LET e == groupFields.entries[i]
         IN  MergeGroupFields_KeepFirst(
                 IF IsUndef(Lookup(fields, e.k))
                 THEN Put(fields, e.k, WithFromGroup(e.v, groupName))
                 ELSE fields,
                 groupName, groupFields, i + 1)

\* the inner loop: for (const [fieldName, fieldConfig] of Object.entries(groupFields))
RECURSIVE MergeGroupFields(_, _, _, _)
MergeGroupFields(fields, groupName, groupFields, i) ==
    IF i > Len(groupFields.entries) THEN fields
    ELSE LET e == groupFields.entries[i]
         IN  MergeGroupFields(Put(fields, e.k, WithFromGroup(e.v, groupName)),
                              groupName, groupFields, i + 1)

\* the outer loop: for (const groupName of Object.keys(fieldGroups));
\* Object.entries(null) throws
RECURSIVE MergeGroups(_, _, _)
MergeGroups(fields, fieldGroups, g) ==
    IF g > Len(fieldGroups.entries) THEN fields
    ELSE LET e == fieldGroups.entries[g]
         IN  IF ~Truthy(e.v) THEN Raise
             ELSE MergeGroups(MergeGroupFields(fields, e.k, e.v, 1), fieldGroups, g + 1)

getAllDatasetFields(cfg) ==
    IF IsNull(cfg) THEN Raise
    ELSE LET dataset == DatasetSection(cfg)
             fields == DatasetPart(dataset, "fields")
             fieldGroups == DatasetPart(dataset, "field_groups")
         IN  MergeGroups(fields, fieldGroups, 1)

\* AfterAggregation when fields is dataset.fields itself and not a copy of
\* it: the group fields are written into the config
AfterAggregation_InPlace(cfg) ==
    IF /\ ~IsNull(cfg)
       /\ "dataset" \in DOMAIN cfg
       /\ Truthy(cfg.dataset)
       /\ Truthy(Lookup(cfg.dataset, "fields"))
       /\ ~IsRaise(getAllDatasetFields(cfg))
    THEN [cfg EXCEPT !.dataset = Put(cfg.dataset, "fields", getAllDatasetFields(cfg))]
    ELSE cfg

\* the config after getAllDatasetFields has run: the loops write into fields,
\* a copy { ...(dataset.fields || {}) }, and into the fresh objects
\* { ...fieldConfig, _fromGroup }, never into the config
AfterAggregation(cfg) == cfg

\* (this.config.input?.fields || {})
InputFields(cfg) ==
    IF "input" \in DOMAIN cfg /\ Truthy(cfg.input)
    THEN PropOr(cfg.input, "fields", EmptyObj)
    ELSE EmptyObj

\* the loop of getInputGroupMapping; fieldConfig.group on null throws
RECURSIVE GroupMappingFrom(_, _, _)
GroupMappingFrom(mapping, inputFields, i) ==
    IF i > Len(inputFields.entries) THEN mapping
    ELSE LET e == inputFields.entries[i]
         IN  IF ~Truthy(e.v) THEN Raise
             ELSE IF HasStr(e.v, "group")
                  THEN GroupMappingFrom(Put(mapping, e.k, e.v.group), inputFields, i + 1)
                  ELSE GroupMappingFrom(mapping, inputFields, i + 1)

getInputGroupMapping(cfg) ==
    IF IsNull(cfg) THEN Raise
    ELSE GroupMappingFrom(EmptyObj, InputFields(cfg), 1)

-----------------------------------------------------------------------------
(* Document Generators *)

\* (this.config.key || {}) for the record-shaped sections actor, input, output
Section(cfg, key) == PropOr(cfg, key, EmptyRec)

generateActorJson(cfg) ==
    IF IsNull(cfg) THEN Raise
    ELSE LET actorConfig == Section(cfg, "actor")
         IN  [actorSpecification |-> 1,
              name |-> StrOr(actorConfig, "name", "unnamed-actor"),
              version |-> StrOr(actorConfig, "version", "0.1"),
              buildTag |-> StrOr(actorConfig, "build_tag", "latest"),
              environmentVariables |-> PropOr(actorConfig, "environment_variables", EmptyObj),
              input |-> "./input_schema.json",
              output |-> "./output_schema.json",
              storages |-> [dataset |-> "./dataset_schema.json"]]

\* the keys copied only when fieldConfig.key !== undefined
PassThroughKeys ==
    {"sectionCaption", "prefill", "default", "minLength", "maxLength",
     "minimum", "maximum", "enum"}

\* InputProperty that writes every optional key, null when the declaration
\* does not set it
InputProperty_Placeholders(fieldName, fieldConfig) ==
    [key \in {"title", "type", "description", "editor"} \cup PassThroughKeys |->
        CASE key = "title" -> StrOr(fieldConfig, "title", toTitleCase(fieldName))
          [] key = "type" -> StrOr(fieldConfig, "type", "string")
          [] key = "description" -> StrOr(fieldConfig, "description",
                                          StrOr(fieldConfig, "desc", ""))
          [] key = "editor" -> inferEditor(fieldConfig)
          [] OTHER -> IF key \in DOMAIN fieldConfig THEN fieldConfig[key] ELSE "null"]

\* one property descriptor of the input schema
InputProperty(fieldName, fieldConfig) ==
    LET always ==
            [title |-> StrOr(fieldConfig, "title", toTitleCase(fieldName)),
             type |-> StrOr(fieldConfig, "type", "string"),
             description |-> StrOr(fieldConfig, "description",
                                   StrOr(fieldConfig, "desc", "")),
             editor |-> inferEditor(fieldConfig)]
        carried == PassThroughKeys \cap DOMAIN fieldConfig
    IN  [key \in DOMAIN always \cup carried |->
            IF key \in carried THEN fieldConfig[key] ELSE always[key]]

\* the loop of generateInputSchema; fieldConfig.title on null throws
RECURSIVE InputPropertiesFrom(_, _, _)
InputPropertiesFrom(properties, customFields, i) ==
    IF i > Len(customFields.entries) THEN properties
    ELSE LET e == customFields.entries[i]
         IN  IF ~Truthy(e.v) THEN Raise
             ELSE InputPropertiesFrom(Put(properties, e.k, InputProperty(e.k, e.v)),
                                      customFields, i + 1)

generateInputSchema(cfg) ==
    IF IsNull(cfg) THEN Raise
    ELSE LET inputConfig == Section(cfg, "input")
             actorConfig == Section(cfg, "actor")
             customFields == PropOr(inputConfig, "fields", EmptyObj)
             properties == InputPropertiesFrom(EmptyObj, customFields, 1)
         IN  IF IsRaise(properties) THEN Raise
             ELSE [title |-> StrOr(actorConfig, "title",
                                   toTitleCase(StrOr(actorConfig, "name", "Actor Input"))),
                   type |-> "object",
                   schemaVersion |-> 1,
                   properties |-> properties,
                   required |-> IF "required" \in DOMAIN inputConfig
                                THEN inputConfig.required ELSE <<>>]

\* the JSON value of a dataset field's type: the bare string fieldType, or
\* the array [fieldType, 'null']
BareType(fieldType) == [only |-> fieldType]

NullableType(fieldType) == [union |-> <<fieldType, "null">>]

\* DatasetFieldType with nullable opt-in: fieldConfig.nullable ? [fieldType, 'null'] : fieldType
DatasetFieldType_OptIn(fieldConfig) ==
    IF "nullable" \in DOMAIN fieldConfig /\ fieldConfig.nullable = TRUE
    THEN NullableType(inferType(fieldConfig))
    ELSE BareType(inferType(fieldConfig))

\* fieldConfig.nullable === false ? fieldType : [fieldType, 'null']
DatasetFieldType(fieldConfig) ==
    IF "nullable" \in DOMAIN fieldConfig /\ fieldConfig.nullable = FALSE
    THEN BareType(inferType(fieldConfig))
    ELSE NullableType(inferType(fieldConfig))

\* one entry of fields.properties of the dataset schema
DatasetField(fieldName, fieldConfig) ==
    LET field ==
            [type |-> DatasetFieldType(fieldConfig),
             title |-> StrOr(fieldConfig, "title", toTitleCase(fieldName)),
             description |-> StrOr(fieldConfig, "description",
                                   StrOr(fieldConfig, "desc", ""))]
    IN  IF inferType(fieldConfig) = "array"
        THEN field @@ [items |-> [type |-> StrOr(fieldConfig, "itemType", "string")]]
        ELSE field

\* the first loop of generateDatasetSchema; inferType(null) throws
RECURSIVE FieldsPropertiesFrom(_, _, _)
FieldsPropertiesFrom(fieldsProperties, allFields, i) ==
    IF i > Len(allFields.entries) THEN fieldsProperties
    ELSE LET e == allFields.entries[i]
         IN  IF ~Truthy(e.v) THEN Raise
             ELSE FieldsPropertiesFrom(Put(fieldsProperties, e.k, DatasetField(e.k, e.v)),
                                       allFields, i + 1)

\* DisplayProperty that prefers the title to the label
DisplayProperty_TitleFirst(fieldName, fieldConfig) ==
    [label |-> StrOr(fieldConfig, "title",
                     StrOr(fieldConfig, "label", toTitleCase(fieldName))),
     format |-> inferFormat(fieldName, fieldConfig)]

\* one entry of a view's display.properties
DisplayProperty(fieldName, fieldConfig) ==
    [label |-> StrOr(fieldConfig, "label",
                     StrOr(fieldConfig, "title", toTitleCase(fieldName))),
     format |-> inferFormat(fieldName, fieldConfig)]

\* DisplayPropertiesFrom walking the field list from its end
RECURSIVE DisplayPropertiesFrom_Reversed(_, _, _, _)
DisplayPropertiesFrom_Reversed(displayProperties, viewFields, allFields, i) ==
    IF i > Len(viewFields) THEN displayProperties
    ELSE LET fieldName == viewFields[Len(viewFields) + 1 - i]
             fieldConfig == Lookup(allFields, fieldName)
         IN  IF ~Truthy(fieldConfig)
             THEN DisplayPropertiesFrom_Reversed(displayProperties, viewFields, allFields, i + 1)
             ELSE DisplayPropertiesFrom_Reversed(
                      Put(displayProperties, fieldName, DisplayProperty(fieldName, fieldConfig)),
                      viewFields, allFields, i + 1)

\* the loop over a view's field list: an unresolved name is skipped
RECURSIVE DisplayPropertiesFrom(_, _, _, _)
DisplayPropertiesFrom(displayProperties, viewFields, allFields, i) ==
    IF i > Len(viewFields) THEN displayProperties
    ELSE LET fieldName == viewFields[i]
             fieldConfig == Lookup(allFields, fieldName)
         IN  IF ~Truthy(fieldConfig)
             THEN DisplayPropertiesFrom(displayProperties, viewFields, allFields, i + 1)
             ELSE DisplayPropertiesFrom(
                      Put(displayProperties, fieldName, DisplayProperty(fieldName, fieldConfig)),
                      viewFields, allFields, i + 1)

\* (viewConfig.fields || [])
ViewFields(viewConfig) ==
    IF "fields" \in DOMAIN viewConfig THEN viewConfig.fields ELSE <<>>

\* one entry of views of the dataset schema
ViewOutput(viewName, viewConfig, allFields) ==
    [title |-> StrOr(viewConfig, "title", toTitleCase(viewName)),
     transformation |-> [fields |-> ViewFields(viewConfig)],
     display |->
        [component |-> StrOr(viewConfig, "component", "table"),
         properties |->
            DisplayPropertiesFrom(EmptyObj, ViewFields(viewConfig), allFields, 1)]]

\* the second loop of generateDatasetSchema; viewConfig.fields on null throws
RECURSIVE ViewsOutputFrom(_, _, _, _)
ViewsOutputFrom(viewsOutput, views, allFields, i) ==
    IF i > Len(views.entries) THEN viewsOutput
    ELSE LET e == views.entries[i]
         IN  IF ~Truthy(e.v) THEN Raise
             ELSE ViewsOutputFrom(Put(viewsOutput, e.k, ViewOutput(e.k, e.v, allFields)),
                                  views, allFields, i + 1)

generateDatasetSchema(cfg) ==
    LET allFields == getAllDatasetFields(cfg)
    IN  IF IsRaise(allFields) THEN Raise
        ELSE LET views == DatasetPart(DatasetSection(cfg), "views")
                 fieldsProperties == FieldsPropertiesFrom(EmptyObj, allFields, 1)
                 viewsOutput == ViewsOutputFrom(EmptyObj, views, allFields, 1)
             IN  IF IsRaise(fieldsProperties) \/ IsRaise(viewsOutput) THEN Raise
                 ELSE \* the key $schema is written schema
                      [actorSpecification |-> 1,
                       fields |-> [schema |-> "http://json-schema.org/draft-07/schema#",
                                   type |-> "object",
                                   properties |-> fieldsProperties],
                       views |-> viewsOutput]

DefaultOutputProperties ==
    Obj(<<[k |-> "results",
           v |-> [type |-> "string", title |-> "Results",
                  template |-> "{{links.apiDefaultDatasetUrl}}/items"]]>>)

generateOutputSchema(cfg) ==
    IF IsNull(cfg) THEN Raise
    ELSE LET outputConfig == Section(cfg, "output")
         IN  [actorOutputSchemaVersion |-> 1,
              title |-> StrOr(outputConfig, "title", "Scraper Results"),
              description |-> StrOr(outputConfig, "description", "Scraper Results"),
              properties |-> PropOr(outputConfig, "properties", DefaultOutputProperties)]

\* generateAllSchemas in which the input schema is generated from the actor
\* document generated before it and not from the config
generateAllSchemas_Threaded(cfg) ==
    IF IsNull(cfg) THEN Raise
    ELSE LET actor == generateActorJson(cfg)
             inputSchema ==
                 generateInputSchema(
                     [key \in DOMAIN cfg \cup {"actor"} |->
                         IF key = "actor" THEN [name |-> actor.name] ELSE cfg[key]])
             datasetSchema == generateDatasetSchema(cfg)
             outputSchema == generateOutputSchema(cfg)
         IN  IF IsRaise(inputSchema) \/ IsRaise(datasetSchema) THEN Raise
             ELSE [actor |-> actor, inputSchema |-> inputSchema,
                   datasetSchema |-> datasetSchema, outputSchema |-> outputSchema]

\* the object schemas of generateAllSchemas: the four documents, generated
\* in the order actor, inputSchema, datasetSchema, outputSchema; a generator
\* that throws ends the method
generateAllSchemas(cfg) ==
    LET actor == generateActorJson(cfg)
        inputSchema == generateInputSchema(cfg)
        datasetSchema == generateDatasetSchema(cfg)
        outputSchema == generateOutputSchema(cfg)
    IN  IF IsRaise(actor) \/ IsRaise(inputSchema) \/ IsRaise(datasetSchema)
           \/ IsRaise(outputSchema)
        THEN Raise
        ELSE [actor |-> actor, inputSchema |-> inputSchema,
              datasetSchema |-> datasetSchema, outputSchema |-> outputSchema]

\* the path and the content of the files generateAllSchemas writes, in the
\* order of its writeJsonFile calls
SchemaFiles(schemas) ==
    <<[path |-> ".actor/actor.json", content |-> schemas.actor],
      [path |-> ".actor/input_schema.json", content |-> schemas.inputSchema],
      [path |-> ".actor/dataset_schema.json", content |-> schemas.datasetSchema],
      [path |-> ".actor/output_schema.json", content |-> schemas.outputSchema]>>

-----------------------------------------------------------------------------
(* Default-Value Deriver *)

\* DeriveDefault that tests the default and the prefill for truthiness:
\* if (fieldConfig.default) ... else if (fieldConfig.prefill)
DeriveDefault_Truthy(defaults, fieldName, fieldConfig) ==
    LET falsy == {"false", "0", "\"\"", "null"}
    IN  IF "default" \in DOMAIN fieldConfig /\ fieldConfig.default \notin falsy
        THEN Put(defaults, fieldName, fieldConfig.default)
        ELSE IF "prefill" \in DOMAIN fieldConfig /\ fieldConfig.prefill \notin falsy
        THEN Put(defaults, fieldName, fieldConfig.prefill)
        ELSE IF "type" \in DOMAIN fieldConfig /\ fieldConfig.type = "boolean"
             THEN Put(defaults, fieldName, "false")
        ELSE IF "type" \in DOMAIN fieldConfig /\ fieldConfig.type \in {"integer", "number"}
             THEN Put(defaults, fieldName, "0")
        ELSE IF "type" \in DOMAIN fieldConfig /\ fieldConfig.type = "array"
             THEN Put(defaults, fieldName, "[]")
        ELSE defaults

\* the if / else-if chain of generateDefaultInput for one field: the mapping
\* with the field's default put in, or unchanged
DeriveDefault(defaults, fieldName, fieldConfig) ==
    IF "default" \in DOMAIN fieldConfig THEN Put(defaults, fieldName, fieldConfig.default)
    ELSE IF "prefill" \in DOMAIN fieldConfig THEN Put(defaults, fieldName, fieldConfig.prefill)
    ELSE IF "type" \in DOMAIN fieldConfig /\ fieldConfig.type = "boolean"
         THEN Put(defaults, fieldName, "false")
    ELSE IF "type" \in DOMAIN fieldConfig /\ fieldConfig.type \in {"integer", "number"}
         THEN Put(defaults, fieldName, "0")
    ELSE IF "type" \in DOMAIN fieldConfig /\ fieldConfig.type = "array"
         THEN Put(defaults, fieldName, "[]")
    ELSE defaults

\* the loop of generateDefaultInput; fieldConfig.default on null throws
RECURSIVE DefaultsFrom(_, _, _)
DefaultsFrom(defaults, customFields, i) ==
    IF i > Len(customFields.entries) THEN defaults
    ELSE LET e == customFields.entries[i]
         IN  IF ~Truthy(e.v) THEN Raise
             ELSE DefaultsFrom(DeriveDefault(defaults, e.k, e.v), customFields, i + 1)

\* Assign that leaves alone a key defaults already has
RECURSIVE Assign_KeepDerived(_, _, _)
Assign_KeepDerived(defaults, overrides, i) ==
    IF i > Len(overrides.entries) THEN defaults
    ELSE Assign_KeepDerived(
             IF overrides.entries[i].k \notin KeySet(defaults)
             THEN Put(defaults, overrides.entries[i].k, overrides.entries[i].v)
             ELSE defaults,
             overrides, i + 1)

\* Object.assign(defaults, overrides)
RECURSIVE Assign(_, _, _)
Assign(defaults, overrides, i) ==
    IF i > Len(overrides.entries) THEN defaults
    ELSE Assign(Put(defaults, overrides.entries[i].k, overrides.entries[i].v),
                overrides, i + 1)

generateDefaultInput(cfg) ==
    IF IsNull(cfg) THEN Raise
    ELSE LET inputConfig == Section(cfg, "input")
             customFields == PropOr(inputConfig, "fields", EmptyObj)
             defaults == DefaultsFrom(EmptyObj, customFields, 1)
         IN  IF IsRaise(defaults) THEN Raise
             ELSE IF "defaults" \in DOMAIN inputConfig /\ Truthy(inputConfig.defaults)
                  THEN Assign(defaults, inputConfig.defaults, 1)
                  ELSE defaults

-----------------------------------------------------------------------------
(* Cross-Reference Validator *)

ErrEmptyConfig == "Config is empty or undefined"

ErrMissingName == "Missing required field: schemas.actor.name"

ErrUnknownField(viewName, fieldName) ==
    "View '" \o viewName \o "' references unknown field '" \o fieldName \o "'"

ErrUnknownGroup(fieldName, group) ==
    "Input field '" \o fieldName \o "' references unknown field_group '" \o group \o "'"

\* !this.config.actor?.name
NameMissing(cfg) ==
    ~("actor" \in DOMAIN cfg /\ Truthy(cfg.actor) /\ HasStr(cfg.actor, "name"))

\* the test in the view loop: !allFields[fieldName]
UnknownField(allFields, fieldName) == ~Truthy(Lookup(allFields, fieldName))

\* ViewErrorsFrom that leaves the loop at the first unknown field of a view
RECURSIVE ViewErrorsFrom_FirstOnly(_, _, _, _, _)
ViewErrorsFrom_FirstOnly(errors, viewName, viewFields, allFields, i) ==
    IF i > Len(viewFields) THEN errors
    ELSE IF UnknownField(allFields, viewFields[i])
         THEN Append(errors, ErrUnknownField(viewName, viewFields[i]))
         ELSE ViewErrorsFrom_FirstOnly(errors, viewName, viewFields, allFields, i + 1)

\* ViewErrorsFrom that puts an error before those found so far
RECURSIVE ViewErrorsFrom_Prepend(_, _, _, _, _)
ViewErrorsFrom_Prepend(errors, viewName, viewFields, allFields, i) ==
    IF i > Len(viewFields) THEN errors
    ELSE ViewErrorsFrom_Prepend(
             IF UnknownField(allFields, viewFields[i])
             THEN <<ErrUnknownField(viewName, viewFields[i])>> \o errors
             ELSE errors,
             viewName, viewFields, allFields, i + 1)

\* the loop over one view's field list
RECURSIVE ViewErrorsFrom(_, _, _, _, _)
ViewErrorsFrom(errors, viewName, viewFields, allFields, i) ==
    IF i > Len(viewFields) THEN errors
    ELSE ViewErrorsFrom(
             IF UnknownField(allFields, viewFields[i])
             THEN Append(errors, ErrUnknownField(viewName, viewFields[i]))
             ELSE errors,
             viewName, viewFields, allFields, i + 1)

\* the loop over the views; viewConfig.fields on null throws.  The errors so
\* far are carried as Obj(errors) so that Raise can take their place.
RECURSIVE AllViewErrorsFrom(_, _, _, _)
AllViewErrorsFrom(errors, views, allFields, i) ==
    IF i > Len(views.entries) THEN Obj(errors)
    ELSE LET e == views.entries[i]
         IN  IF ~Truthy(e.v) THEN Raise
             ELSE AllViewErrorsFrom(
                      ViewErrorsFrom(errors, e.k, ViewFields(e.v), allFields, 1),
                      views, allFields, i + 1)

\* the test in the input loop: fieldConfig.group && !fieldGroups[fieldConfig.group]
UnknownGroup(fieldGroups, fieldConfig) ==
    HasStr(fieldConfig, "group") /\ ~Truthy(Lookup(fieldGroups, fieldConfig.group))

\* the loop over the input fields; fieldConfig.group on null throws
RECURSIVE GroupErrorsFrom(_, _, _, _)
GroupErrorsFrom(errors, inputFields, fieldGroups, i) ==
    IF i > Len(inputFields.entries) THEN Obj(errors)
    ELSE LET e == inputFields.entries[i]
         IN  IF ~Truthy(e.v) THEN Raise
             ELSE GroupErrorsFrom(
                      IF UnknownGroup(fieldGroups, e.v)
                      THEN Append(errors, ErrUnknownGroup(e.k, e.v.group))
                      ELSE errors,
                      inputFields, fieldGroups, i + 1)

\* NewErrors when the list is kept on the manager and not emptied between
\* calls
NewErrors_Kept == IF op = "validate" /\ ~IsRaise(result) THEN result.errors ELSE <<>>

\* const errors = []: every call starts from a fresh list
NewErrors == <<>>

\* ConfigMissing that also takes a mapping without keys for missing
ConfigMissing_OrNoSection(cfg) == IsNull(cfg) \/ cfg = EmptyRec

\* if (!this.config): null and undefined are falsy, every mapping is truthy
ConfigMissing(cfg) == IsNull(cfg)

validate(cfg) ==
    IF ConfigMissing(cfg) THEN [valid |-> FALSE, errors |-> Append(NewErrors, ErrEmptyConfig)]
    ELSE LET errors1 == IF NameMissing(cfg) THEN Append(NewErrors, ErrMissingName)
                        ELSE NewErrors
             allFields == getAllDatasetFields(cfg)
         IN  IF IsRaise(allFields) THEN Raise
             ELSE LET views == DatasetPart(DatasetSection(cfg), "views")
                      errors2 == AllViewErrorsFrom(errors1, views, allFields, 1)
                  IN  IF IsRaise(errors2) THEN Raise
                      ELSE LET fieldGroups == DatasetPart(DatasetSection(cfg), "field_groups")
                               errors3 == GroupErrorsFrom(errors2.entries, InputFields(cfg),
                                                          fieldGroups, 1)
                           IN  IF IsRaise(errors3) THEN Raise
                               ELSE [valid |-> Len(errors3.entries) = 0,
                                     errors |-> errors3.entries]

-----------------------------------------------------------------------------
(* The configuration trees the manager is constructed with *)

\* the longest field list of a view
MaxViewLen == 2

\* the largest number of field-groups
MaxGroups == 2

\* the largest number of input fields
MaxInputFields == 2

SeqsUpTo(S, n) == UNION {[1..m -> S] : m \in 0..n}

\* the ordered mapping with the i-th name bound to the i-th value
NamedObj(names, vals) == Obj([i \in 1..Len(vals) |-> [k |-> names[i], v |-> vals[i]]])

\* the entry key: v of a mapping literal, none when v is absent
Part(key, v) == IF IsUndef(v) THEN <<>> ELSE <<[k |-> key, v |-> v]>>

\* the dataset section with its keys in declaration order
MkDataset(F, G, V, groupsFirst) ==
    Obj((IF groupsFirst
         THEN Part("field_groups", G) \o Part("fields", F)
         ELSE Part("fields", F) \o Part("field_groups", G)) \o Part("views", V))

\* the record with the keys of r whose value is not absent
Present(r) == [key \in {x \in DOMAIN r : ~IsUndef(r[x])} |-> r[key]]

MkConfig(A, I, D, O) == Present([actor |-> A, input |-> I, dataset |-> D, output |-> O])

GroupNames == [i \in 1..(MaxGroups + 1) |-> "g" \o ToString(i)]

ViewNames == <<"overview", "detail">>

InputNames == [i \in 1..(MaxInputFields + 1) |-> "in" \o ToString(i)]

\* the names a view lists: two that may be declared, one that never is
ListedNames == {"price", "site_url", "z"}

NamedActor == [name |-> "demo"]

\* views: the first of every shape, the second (if any) one of three
ViewLists == SeqsUpTo(ListedNames, MaxViewLen)

FirstViews == {NullV, EmptyRec} \cup {[fields |-> l] : l \in ViewLists}

SecondViews == {NullV, [fields |-> <<"z">>], [fields |-> <<"site_url", "price">>, title |-> "Details"]}

ViewsOpts ==
    {UndefV, EmptyObj}
        \cup {NamedObj(ViewNames, <<v>>) : v \in FirstViews}
        \cup {NamedObj(ViewNames, <<v, w>>) : v \in FirstViews, w \in SecondViews}

FewFields ==
    {UndefV,
     Obj(<<[k |-> "price", v |-> NullV]>>),
     Obj(<<[k |-> "price", v |-> [type |-> "number"]],
           [k |-> "site_url", v |-> [title |-> "Site"]]>>)}

FewGroups ==
    {UndefV,
     NamedObj(GroupNames, <<NullV>>),
     NamedObj(GroupNames, <<EmptyObj>>),
     NamedObj(GroupNames, <<Obj(<<[k |-> "site_url", v |-> NullV]>>)>>),
     NamedObj(GroupNames, <<Obj(<<[k |-> "price", v |-> [label |-> "Cost"]]>>),
                            Obj(<<[k |-> "site_url", v |-> [type |-> "string"]]>>)>>)}

\* configs that vary the views against a few field sets
ViewConfigs ==
    {MkConfig(NamedActor, UndefV, MkDataset(F, G, V, FALSE), UndefV) :
        F \in FewFields, G \in FewGroups, V \in ViewsOpts}

InputDecls == {NullV, EmptyRec, [group |-> "g1"], [group |-> "bad"]}

InputOpts ==
    {UndefV} \cup {[fields |-> NamedObj(InputNames, ds)] :
                      ds \in SeqsUpTo(InputDecls, MaxInputFields)}

FewViews ==
    {UndefV,
     NamedObj(ViewNames, <<[fields |-> <<"z">>], [fields |-> <<"z", "price", "z">>]>>)}

\* configs that vary what validate checks: the actor name, the views, the
\* group references of the input fields
ValidateConfigs ==
    {MkConfig(A, I, MkDataset(F, G, V, FALSE), UndefV) :
        A \in {EmptyRec, NamedActor}, I \in InputOpts,
        F \in FewFields \ {Obj(<<[k |-> "price", v |-> NullV]>>)},
        G \in FewGroups \ {NamedObj(GroupNames, <<NullV>>)},
        V \in FewViews}

DatasetDecls ==
    {NullV, EmptyRec,
     [type |-> "number"],
     [type |-> "string", nullable |-> FALSE],
     [array |-> TRUE],
     [array |-> TRUE, nullable |-> FALSE, itemType |-> "number"],
     [type |-> "integer", array |-> TRUE, nullable |-> TRUE, title |-> "Count"]}

FieldsOpts ==
    {UndefV, EmptyObj}
        \cup {Obj(<<[k |-> "price", v |-> d]>>) : d \in DatasetDecls}
        \cup {Obj(<<[k |-> "site_url", v |-> [desc |-> "link"]], [k |-> "price", v |-> d]>>) :
                d \in {NullV, [type |-> "number"], [array |-> TRUE]}}

GroupDecls == {NullV, [type |-> "boolean", nullable |-> FALSE]}

GroupValues ==
    {NullV, EmptyObj,
     Obj(<<[k |-> "site_url", v |-> [format |-> "link"]], [k |-> "price", v |-> EmptyRec]>>)}
        \cup {Obj(<<[k |-> "price", v |-> d]>>) : d \in GroupDecls}
        \cup {Obj(<<[k |-> "site_url", v |-> [type |-> "boolean", nullable |-> FALSE]]>>)}

GroupsOpts ==
    {UndefV} \cup {NamedObj(GroupNames, gs) : gs \in SeqsUpTo(GroupValues, MaxGroups)}

\* the base fields tried with field_groups declared before fields
CollidingFields ==
    {Obj(<<[k |-> "price", v |-> d]>>) : d \in {NullV, [type |-> "number"]}}
        \cup {Obj(<<[k |-> "site_url", v |-> [desc |-> "link"]],
                    [k |-> "price", v |-> [type |-> "number"]]>>)}

\* configs that vary the field declarations, the groups and the order of the
\* keys fields and field_groups
AggregateConfigs ==
    {MkConfig(NamedActor, UndefV,
              MkDataset(F, G, NamedObj(ViewNames, <<[fields |-> <<"price", "site_url">>]>>),
                        FALSE),
              UndefV) :
        F \in FieldsOpts, G \in GroupsOpts}
    \cup
    {MkConfig(NamedActor, UndefV,
              MkDataset(F, G, NamedObj(ViewNames, <<[fields |-> <<"price", "site_url">>]>>),
                        TRUE),
              UndefV) :
        F \in CollidingFields, G \in GroupsOpts}

TypicalInputFields ==
    Obj(<<[k |-> "start_urls", v |-> [type |-> "array", prefill |-> "[]", group |-> "g1"]],
          [k |-> "max_items", v |-> [type |-> "integer", default |-> "10", minimum |-> "1"]],
          [k |-> "debug", v |-> [type |-> "boolean", desc |-> "verbose"]]>>)

TypicalFields == Obj(<<[k |-> "price", v |-> [type |-> "number"]]>>)

TypicalGroups == Obj(<<[k |-> "g1", v |-> Obj(<<[k |-> "site_url", v |-> EmptyRec]>>)]>>)

TypicalViews == Obj(<<[k |-> "overview", v |-> [fields |-> <<"price", "site_url">>]]>>)

SectionInputs ==
    {UndefV, EmptyRec,
     [fields |-> TypicalInputFields],
     [required |-> <<"start_urls">>],
     [fields |-> TypicalInputFields, required |-> <<"start_urls">>]}

SectionDatasets ==
    {UndefV} \cup {MkDataset(F, G, V, FALSE) :
                      F \in {UndefV, TypicalFields}, G \in {UndefV, TypicalGroups},
                      V \in {UndefV, TypicalViews}}

\* configs in which every section is either absent or has a usual value
SectionConfigs ==
    {MkConfig(A, I, D, O) :
        A \in {UndefV, [name |-> "demo", version |-> "1.2"]},
        I \in SectionInputs, D \in SectionDatasets,
        O \in {UndefV, [title |-> "Out"]}}

\* the declarations that set any of the keys of full, to the value full gives
DeclsOver(full) == {[key \in S |-> full[key]] : S \in SUBSET DOMAIN full}

\* r and s together (their keys are disjoint)
Both(r, s) == [key \in DOMAIN r \cup DOMAIN s |-> IF key \in DOMAIN r THEN r[key] ELSE s[key]]

DisplayNames == {"price", "site_url", "website", "page_links"}

DisplayDecls == DeclsOver([label |-> "Cost", title |-> "Price Tag", format |-> "date", array |-> TRUE])

\* a view that lists the field n and a name that is never declared
DisplayViews(n) == {[fields |-> <<"z", n>>], [fields |-> <<n, "z">>, component |-> "grid"]}

\* configs that vary what a view's display properties are made of: the name
\* of the field, its label, title, format and array flag, the component
DisplayConfigs ==
    UNION {{MkConfig(NamedActor, UndefV,
                     MkDataset(Obj(<<[k |-> n, v |-> d]>>), UndefV,
                               NamedObj(ViewNames, <<v>>), FALSE),
                     UndefV) :
               d \in DisplayDecls, v \in DisplayViews(n)} : n \in DisplayNames}

TypeValues == {"boolean", "integer", "number", "array", "string", "object"}

\* what a declaration says of its type: the key type, the array flag
TypeDecls ==
    {EmptyRec, [array |-> TRUE]}
        \cup {[type |-> t] : t \in TypeValues}
        \cup {[type |-> t, array |-> TRUE] : t \in TypeValues}

\* every combination of the optional keys, some with a falsy or null value
CarriedDecls ==
    DeclsOver([sectionCaption |-> "\"Basics\"", prefill |-> "\"\"", default |-> "0",
               minLength |-> "1", maxLength |-> "9", minimum |-> "null",
               maximum |-> "100", enum |-> "[\"a\",\"b\"]"])

PropertyDecls ==
    {Both(t, c) : t \in {[type |-> "integer"], [desc |-> "how many", title |-> "Limit"]},
                  c \in CarriedDecls}
        \cup {Both(t, e) : t \in TypeDecls, e \in {EmptyRec, [editor |-> "json"]}}

\* configs that vary the declaration of one input field
PropertyConfigs ==
    {MkConfig(NamedActor, [fields |-> Obj(<<[k |-> "max_items", v |-> d]>>)], UndefV, UndefV) :
        d \in PropertyDecls}

\* an explicit default among them a false, a zero and an empty string
DefaultDecls ==
    {EmptyRec, [prefill |-> "\"p\""]}
        \cup {[default |-> j] : j \in {"false", "0", "\"\"", "true", "null"}}
        \cup {[default |-> j, prefill |-> "\"p\""] : j \in {"false", "0", "\"\"", "true", "null"}}

DeriverDecls == {Both(t, d) : t \in TypeDecls, d \in DefaultDecls}

DeriverFields ==
    {Obj(<<[k |-> "max_items", v |-> d]>>) : d \in DeriverDecls}
        \cup {Obj(<<[k |-> "max_items", v |-> d],
                    [k |-> "debug", v |-> [type |-> "boolean", default |-> "true",
                                           prefill |-> "false"]]>>) : d \in DeriverDecls}

\* input.defaults: absent, null, or a mapping
DefaultsOpts ==
    {UndefV, NullV, EmptyObj,
     Obj(<<[k |-> "max_items", v |-> "50"]>>),
     Obj(<<[k |-> "proxy", v |-> "\"auto\""], [k |-> "debug", v |-> "false"]>>)}

\* configs that vary what the default input is derived from
DeriverConfigs ==
    {MkConfig(NamedActor, Present([fields |-> F, defaults |-> O]), UndefV, UndefV) :
        F \in DeriverFields, O \in DefaultsOpts}

ActorDecls ==
    DeclsOver([name |-> "my_actor", title |-> "My Scraper", version |-> "2.0"])
        \cup {[name |-> ""], [title |-> ""], [name |-> "shop", title |-> ""],
              [name |-> "", title |-> ""]}

\* configs that vary the actor section
ActorConfigs ==
    {MkConfig(A, I, UndefV, UndefV) :
        A \in {UndefV, NullV} \cup ActorDecls,
        I \in {UndefV, [fields |-> TypicalInputFields]}}

\* new ActorSchemaManager(undefined) or (null), and (config) for a parsed tree
Configs ==
    {NullV} \cup ViewConfigs \cup ValidateConfigs \cup AggregateConfigs \cup SectionConfigs
        \cup DisplayConfigs \cup PropertyConfigs \cup DeriverConfigs \cup ActorConfigs

-----------------------------------------------------------------------------
(* The manager: construction, then any method any number of times *)

\* new ActorSchemaManager(config, {dryRun: true}): no method of this manager
\* writes a file
Init ==
    /\ config \in Configs
    /\ op = "new"
    /\ result = EmptyRec
    /\ dryRun = TRUE
    /\ files = <<>>

GetAllDatasetFields ==
    /\ op' = "getAllDatasetFields"
    /\ result' = getAllDatasetFields(config)
    /\ config' = AfterAggregation(config)
    /\ UNCHANGED <<dryRun, files>>

GetInputGroupMapping ==
    /\ op' = "getInputGroupMapping"
    /\ result' = getInputGroupMapping(config)
    /\ UNCHANGED <<config, dryRun, files>>

GenerateActorJson ==
    /\ op' = "generateActorJson"
    /\ result' = generateActorJson(config)
    /\ UNCHANGED <<config, dryRun, files>>

GenerateInputSchema ==
    /\ op' = "generateInputSchema"
    /\ result' = generateInputSchema(config)
    /\ UNCHANGED <<config, dryRun, files>>

GenerateDatasetSchema ==
    /\ op' = "generateDatasetSchema"
    /\ result' = generateDatasetSchema(config)
    /\ config' = AfterAggregation(config)
    /\ UNCHANGED <<dryRun, files>>

GenerateOutputSchema ==
    /\ op' = "generateOutputSchema"
    /\ result' = generateOutputSchema(config)
    /\ UNCHANGED <<config, dryRun, files>>

GenerateDefaultInput ==
    /\ op' = "generateDefaultInput"
    /\ result' = generateDefaultInput(config)
    /\ UNCHANGED <<config, dryRun, files>>

Validate ==
    /\ op' = "validate"
    /\ result' = validate(config)
    /\ config' = AfterAggregation(config)
    /\ UNCHANGED <<dryRun, files>>

\* generateAllSchemas as one call: the documents, then, unless dryRun, the
\* four files
GenerateAllSchemas ==
    /\ op' = "generateAllSchemas"
    /\ result' = generateAllSchemas(config)
    /\ config' = AfterAggregation(config)
    /\ files' = IF dryRun \/ IsRaise(generateAllSchemas(config)) THEN files
                 ELSE files \o SchemaFiles(generateAllSchemas(config))
    /\ UNCHANGED dryRun

Next ==
    \/ GetAllDatasetFields
    \/ GetInputGroupMapping
    \/ GenerateActorJson
    \/ GenerateInputSchema
    \/ GenerateDatasetSchema
    \/ GenerateOutputSchema
    \/ GenerateDefaultInput
    \/ GenerateAllSchemas
    \/ Validate

Spec == Init /\ [][Next]_vars

-----------------------------------------------------------------------------
(* The static methods of the class, called without a manager: config holds  *)
(* the arguments of the call, [fieldName, fieldConfig]                      *)

\* the longest generated identifier
MaxNameLen == 3

\* a lower-case letter, an upper-case letter and the separator
NameAlphabet == {"a", "B", "_"}

RECURSIVE StringsUpTo(_)
StringsUpTo(n) ==
    IF n = 0 THEN {""}
    ELSE StringsUpTo(n - 1) \cup {str \o ch : str \in StringsUpTo(n - 1), ch \in NameAlphabet}

\* names that meet, or nearly meet, the name rules of inferFormat
RuleNames ==
    {"site_url", "website", "page_links", "price", "start_urls", "id", "_url",
     "my_website", "url", "links"}

\* a declaration's format, array flag, type and editor, each set or not
NormalizerDecls ==
    {Both(Both(f, a), Both(t, e)) :
        f \in {EmptyRec, [format |-> "date"]},
        a \in {EmptyRec, [array |-> TRUE], [array |-> FALSE]},
        t \in {EmptyRec} \cup {[type |-> v] : v \in TypeValues},
        e \in {EmptyRec, [editor |-> "json"]}}

StaticArgs ==
    {[fieldName |-> n, fieldConfig |-> EmptyRec] : n \in StringsUpTo(MaxNameLen)}
        \cup {[fieldName |-> n, fieldConfig |-> d] : n \in RuleNames, d \in NormalizerDecls}

StaticInit ==
    /\ config \in StaticArgs
    /\ op = "new"
    /\ result = EmptyRec
    /\ dryRun = FALSE
    /\ files = <<>>

ToTitleCase ==
    /\ op' = "toTitleCase"
    /\ result' = toTitleCase(config.fieldName)
    /\ UNCHANGED <<config, dryRun, files>>

InferFormat ==
    /\ op' = "inferFormat"
    /\ result' = inferFormat(config.fieldName, config.fieldConfig)
    /\ UNCHANGED <<config, dryRun, files>>

InferType ==
    /\ op' = "inferType"
    /\ result' = inferType(config.fieldConfig)
    /\ UNCHANGED <<config, dryRun, files>>

InferEditor ==
    /\ op' = "inferEditor"
    /\ result' = inferEditor(config.fieldConfig)
    /\ UNCHANGED <<config, dryRun, files>>

StaticNext ==
    \/ ToTitleCase
    \/ InferFormat
    \/ InferType
    \/ InferEditor

StaticSpec == StaticInit /\ [][StaticNext]_vars

-----------------------------------------------------------------------------
(* The gen-schemas command (src/src/Websy.mjs): config is yamlData.schemas, *)
(* dryRun is cmd.dryRun, op is the place the command has come to, result is *)
(* what the manager last returned                                           *)

\* the schemas sections of the spec files the command is run on; NullV is a
\* spec file without a schemas section
FlowConfigs == {NullV} \cup ViewConfigs \cup SectionConfigs

FlowInit ==
    /\ config \in FlowConfigs
    /\ dryRun \in BOOLEAN
    /\ op = "loadSpec"
    /\ result = EmptyRec
    /\ files = <<>>

\* ValidationPassed that lets every validation result through
ValidationPassed_Always(validation) == TRUE

\* the test if (!validation.valid) of the command, negated
ValidationPassed(validation) == validation.valid

\* if (!yamlData.schemas) process.exit(1), else the manager is constructed
CheckSchemas ==
    /\ op = "loadSpec"
    /\ op' = IF ConfigMissing(config) THEN "exit no schemas" ELSE "constructed"
    /\ UNCHANGED <<config, result, dryRun, files>>

\* manager.validate(): a throw goes to the catch, an invalid result to
\* process.exit(1)
RunValidate ==
    /\ op = "constructed"
    /\ result' = validate(config)
    /\ config' = AfterAggregation(config)
    /\ op' = IF IsRaise(validate(config)) THEN "exit error"
             ELSE IF ~ValidationPassed(validate(config)) THEN "exit invalid"
             ELSE "validated"
    /\ UNCHANGED <<dryRun, files>>

\* the first statement of manager.generateAllSchemas(): the four documents;
\* a throw goes to the catch
RunGenerators ==
    /\ op = "validated"
    /\ result' = generateAllSchemas(config)
    /\ config' = AfterAggregation(config)
    /\ op' = IF IsRaise(generateAllSchemas(config)) THEN "exit error"
             ELSE IF dryRun THEN "printing"
             ELSE "writing"
    /\ UNCHANGED <<dryRun, files>>

\* the next writeJsonFile call of generateAllSchemas
WriteNext ==
    /\ op = "writing"
    /\ files' = Append(files, SchemaFiles(result)[Len(files) + 1])
    /\ op' = IF Len(files) + 1 = Len(SchemaFiles(result)) THEN "done" ELSE "writing"
    /\ UNCHANGED <<config, result, dryRun>>

\* ensureActorDir or the next writeJsonFile call throws (the file system
\* refuses): the throw goes to the catch
WriteFails ==
    /\ op = "writing"
    /\ op' = "exit error"
    /\ UNCHANGED <<config, result, dryRun, files>>

\* if (cmd.dryRun): the documents are printed
PrintDryRun ==
    /\ op = "printing"
    /\ op' = "done"
    /\ UNCHANGED <<config, result, dryRun, files>>

FlowNext ==
    \/ CheckSchemas
    \/ RunValidate
    \/ RunGenerators
    \/ WriteNext
    \/ WriteFails
    \/ PrintDryRun

FlowSpec == FlowInit /\ [][FlowNext]_vars

-----------------------------------------------------------------------------
(* What the claims speak of, read off the configuration alone *)

Returned(name) == op = name /\ ~IsRaise(result)

BaseFields(cfg) == DatasetPart(DatasetSection(cfg), "fields")

FieldGroups(cfg) == DatasetPart(DatasetSection(cfg), "field_groups")

DeclaredViews(cfg) == DatasetPart(DatasetSection(cfg), "views")

\* the names declared by the groups that are mappings
GroupFieldNames(cfg) ==
    UNION {KeySet(FieldGroups(cfg).entries[g].v) :
              g \in {h \in 1..Len(FieldGroups(cfg).entries) :
                        Truthy(FieldGroups(cfg).entries[h].v)}}

\* the names of the aggregated dataset field set
AggregatedNames(cfg) == KeySet(BaseFields(cfg)) \cup GroupFieldNames(cfg)

\* the places <<view, position>> of the view field lists
ViewPlaces(cfg) ==
    {<<i, j>> \in (1..Len(DeclaredViews(cfg).entries)) \X (1..(MaxViewLen + 2)) :
        /\ Truthy(DeclaredViews(cfg).entries[i].v)
        /\ j <= Len(ViewFields(DeclaredViews(cfg).entries[i].v))}

ListedAt(cfg, place) == ViewFields(DeclaredViews(cfg).entries[place[1]].v)[place[2]]

\* the places that list a name outside the aggregated field set
DanglingPlaces(cfg) ==
    {place \in ViewPlaces(cfg) : ListedAt(cfg, place) \notin AggregatedNames(cfg)}

\* the input fields whose group names no field-group
BadGroupFields(cfg) ==
    {i \in 1..Len(InputFields(cfg).entries) :
        LET d == InputFields(cfg).entries[i].v
        IN  /\ Truthy(d)
            /\ "group" \in DOMAIN d
            /\ d.group \notin KeySet(FieldGroups(cfg))}

ActorNamePresent(cfg) == "actor" \in DOMAIN cfg /\ "name" \in DOMAIN cfg.actor

ExpectedErrorCount(cfg) ==
    (IF ActorNamePresent(cfg) THEN 0 ELSE 1)
        + Cardinality(DanglingPlaces(cfg)) + Cardinality(BadGroupFields(cfg))

-----------------------------------------------------------------------------
(* C1 *)

\* C1: validate reports every failure: for a config that is not empty the
\* errors it returns are one for a missing actor.name, one per place of a view field list
\* naming a field outside the aggregated field set, and one per input field
\* whose group names no field-group; valid is false unless there is none.
C1_ErrorsAccumulate ==
    (Returned("validate") /\ ~IsNull(config) /\ config # EmptyRec) =>
        /\ Len(result.errors) = ExpectedErrorCount(config)
        /\ result.valid = (ExpectedErrorCount(config) = 0)

-----------------------------------------------------------------------------
(* C2 *)

\* C2: validate never throws, whatever the config tree: it returns a result
\* with valid and errors.
C2_ValidateNeverThrows ==
    op = "validate" => (~IsRaise(result) /\ DOMAIN result = {"valid", "errors"})

-----------------------------------------------------------------------------
(* C3 *)

\* C3 as claimed: for a config that is absent or a mapping with no section,
\* validate returns the single error of an empty config, and no other check
\* has added an error.
C3_EmptyConfigSingleError ==
    (op = "validate" /\ (IsNull(config) \/ config = EmptyRec)) =>
        result = [valid |-> FALSE, errors |-> <<ErrEmptyConfig>>]

\* C3 as amended: for an absent (null) config validate returns the single
\* error of an empty config and runs no other check; a mapping with no
\* section is not taken for empty: the checks run on it and it gets the single
\* error of the missing actor.name.
C3_MissingConfigSingleError ==
    /\ (op = "validate" /\ IsNull(config)) =>
            result = [valid |-> FALSE, errors |-> <<ErrEmptyConfig>>]
    /\ (op = "validate" /\ config = EmptyRec) =>
            result = [valid |-> FALSE, errors |-> <<ErrMissingName>>]

C3_Witness == op = "validate" /\ IsNull(config) /\ result.valid = FALSE

-----------------------------------------------------------------------------
(* C4 *)

\* the views that are mappings and list a name outside the aggregated set
ViewsWithDangling(cfg) == {place[1] : place \in DanglingPlaces(cfg)}

\* C4: the dataset generator tolerates dangling view references: for a config
\* with a view that lists a name outside the aggregated field set,
\* generation does not throw, the view is emitted, the unresolved names have
\* no entry in its display.properties and every resolvable name it lists has
\* its entry with label and format.
C4_DanglingTolerated ==
    (op = "generateDatasetSchema" /\ ~IsNull(config) /\ ViewsWithDangling(config) # {}) =>
        /\ ~IsRaise(result)
        /\ \A i \in ViewsWithDangling(config) :
              LET view == DeclaredViews(config).entries[i]
                  out == Lookup(result.views, view.k)
                  listed == {ViewFields(view.v)[j] : j \in 1..Len(ViewFields(view.v))}
              IN  /\ Truthy(out)
                  /\ KeySet(out.display.properties) = listed \cap AggregatedNames(config)
                  /\ \A n \in KeySet(out.display.properties) :
                        DOMAIN Lookup(out.display.properties, n) = {"label", "format"}

-----------------------------------------------------------------------------
(* C5 *)

NeverRaising ==
    {"getAllDatasetFields", "generateActorJson", "generateInputSchema",
     "generateDatasetSchema", "generateOutputSchema", "generateDefaultInput"}

\* C5: the aggregator, the four generators and the default-value deriver
\* never throw, whatever the config tree (a mapping, however sparse).
C5_GeneratorsNeverThrow == (op \in NeverRaising /\ ~IsNull(config)) => ~IsRaise(result)

-----------------------------------------------------------------------------
(* C6 *)

Apply(name, cfg) ==
    CASE name = "validate" -> validate(cfg)
      [] name = "generateActorJson" -> generateActorJson(cfg)
      [] name = "generateInputSchema" -> generateInputSchema(cfg)
      [] name = "generateDatasetSchema" -> generateDatasetSchema(cfg)
      [] name = "generateOutputSchema" -> generateOutputSchema(cfg)
      [] name = "generateDefaultInput" -> generateDefaultInput(cfg)

\* r with key added, bound to val
WithKey(r, key, val) == [x \in DOMAIN r \cup {key} |-> IF x = key THEN val ELSE r[x]]

\* the configs got from cfg by setting one absent section to an empty mapping
\* (input.required to an empty list)
EmptiedVariants(cfg) ==
    {WithKey(cfg, s, EmptyRec) : s \in {"actor", "input", "output"} \ DOMAIN cfg}
        \cup {WithKey(cfg, s, EmptyObj) : s \in {"dataset"} \ DOMAIN cfg}
        \cup (IF "input" \in DOMAIN cfg
              THEN {[cfg EXCEPT !.input = WithKey(cfg.input, s, EmptyObj)] :
                        s \in {"fields"} \ DOMAIN cfg.input}
                   \cup {[cfg EXCEPT !.input = WithKey(cfg.input, s, <<>>)] :
                            s \in {"required"} \ DOMAIN cfg.input}
              ELSE {})
        \cup (IF "dataset" \in DOMAIN cfg
              THEN {[cfg EXCEPT !.dataset =
                        Obj(Append(cfg.dataset.entries, [k |-> s, v |-> EmptyObj]))] :
                        s \in {"fields", "field_groups", "views"} \ KeySet(cfg.dataset)}
              ELSE {})

SectionReaders ==
    {"validate", "generateActorJson", "generateInputSchema", "generateDatasetSchema",
     "generateOutputSchema", "generateDefaultInput"}

\* C6: an absent section is an empty mapping: for any config, what a
\* generator, the deriver or validate returns is what it returns for the same
\* config with an absent section set to an empty mapping, and it does not
\* throw.
C6_AbsentIsEmpty ==
    (op \in SectionReaders /\ ~IsNull(config)) =>
        /\ ~IsRaise(result)
        /\ \A cfg \in EmptiedVariants(config) : Apply(op, cfg) = result

-----------------------------------------------------------------------------
(* C7 *)

\* the groups (by position) that declare name
GroupsDeclaring(cfg, name) ==
    {g \in 1..Len(FieldGroups(cfg).entries) :
        /\ Truthy(FieldGroups(cfg).entries[g].v)
        /\ name \in KeySet(FieldGroups(cfg).entries[g].v)}

\* value is the declaration decl of a group field tagged with the group's name
TaggedCopy(value, decl, groupName) ==
    /\ "_fromGroup" \in DOMAIN value
    /\ value._fromGroup = groupName
    /\ IF IsNull(decl)
       THEN DOMAIN value = {"_fromGroup"}
       ELSE /\ DOMAIN value = DOMAIN decl \cup {"_fromGroup"}
            /\ \A key \in DOMAIN decl : value[key] = decl[key]

\* C7: the names getAllDatasetFields returns are those of dataset.fields and
\* of every group; a field taken from a group carries _fromGroup with the name
\* of a group that declares it and all the attributes of that declaration; a
\* base field no group redeclares is returned unchanged, without _fromGroup.
C7_AggregatedFields ==
    Returned("getAllDatasetFields") =>
        /\ KeySet(result) = KeySet(BaseFields(config)) \cup GroupFieldNames(config)
        /\ \A name \in GroupFieldNames(config) :
              \E g \in GroupsDeclaring(config, name) :
                  TaggedCopy(Lookup(result, name),
                             Lookup(FieldGroups(config).entries[g].v, name),
                             FieldGroups(config).entries[g].k)
        /\ \A name \in KeySet(BaseFields(config)) \ GroupFieldNames(config) :
              /\ Lookup(result, name) = Lookup(BaseFields(config), name)
              /\ "_fromGroup" \notin DOMAIN Lookup(result, name)

\* a base field kept as declared beside a group field with attributes
C7_Witness ==
    /\ Returned("getAllDatasetFields")
    /\ KeySet(BaseFields(config)) \ GroupFieldNames(config) # {}
    /\ \E name \in GroupFieldNames(config) :
          /\ name \notin KeySet(BaseFields(config))
          /\ "type" \in DOMAIN Lookup(result, name)

-----------------------------------------------------------------------------
(* C8 *)

\* the last group, in declaration order, that declares name
LastGroupDeclaring(cfg, name) ==
    CHOOSE g \in GroupsDeclaring(cfg, name) : \A h \in GroupsDeclaring(cfg, name) : h <= g

\* the position of a key of the dataset section
KeyIndex(cfg, key) ==
    CHOOSE i \in 1..Len(DatasetSection(cfg).entries) : DatasetSection(cfg).entries[i].k = key

\* the key fields is declared after the key field_groups
FieldsDeclaredLast(cfg) ==
    /\ {"fields", "field_groups"} \subseteq KeySet(DatasetSection(cfg))
    /\ KeyIndex(cfg, "fields") > KeyIndex(cfg, "field_groups")

\* the name is declared in dataset.fields and in a group
Collides(cfg, name) == name \in KeySet(BaseFields(cfg)) \cap GroupFieldNames(cfg)

\* the field returned for name is the one of the last group declaring it
LastGroupWins(cfg, fields, name) ==
    LET g == LastGroupDeclaring(cfg, name)
    IN  TaggedCopy(Lookup(fields, name),
                   Lookup(FieldGroups(cfg).entries[g].v, name),
                   FieldGroups(cfg).entries[g].k)

\* C8 as claimed: on a collision the later declaration wins: among groups the
\* later group, and between dataset.fields and a group the one whose section
\* (fields or field_groups) comes later in the config.
C8_DeclarationOrderWins ==
    Returned("getAllDatasetFields") =>
        \A name \in GroupFieldNames(config) :
            IF Collides(config, name) /\ FieldsDeclaredLast(config)
            THEN Lookup(result, name) = Lookup(BaseFields(config), name)
            ELSE LastGroupWins(config, result, name)

\* C8 as amended: among groups the later-declared group wins, and a group
\* field always wins over the base field of the same name, whichever of the
\* keys fields and field_groups comes first in the config.
C8_GroupWinsOverBase ==
    Returned("getAllDatasetFields") =>
        \A name \in GroupFieldNames(config) : LastGroupWins(config, result, name)

\* a collision in a config that declares fields after field_groups, and one
\* between two groups
C8_Witness ==
    /\ Returned("getAllDatasetFields")
    /\ FieldsDeclaredLast(config)
    /\ \E name \in GroupFieldNames(config) :
          /\ Collides(config, name)
          /\ Cardinality(GroupsDeclaring(config, name)) > 1
          /\ "_fromGroup" \in DOMAIN Lookup(result, name)

-----------------------------------------------------------------------------
(* C9 *)

\* C9: in the dataset schema the type of every aggregated field is the pair
\* of its inferred type and "null", unless its declaration sets nullable to
\* false, and then it is the inferred type alone; a declaration without the
\* key nullable is nullable.
C9_NullableByDefault ==
    Returned("generateDatasetSchema") =>
        LET allFields == getAllDatasetFields(config)
        IN  /\ KeySet(result.fields.properties) = KeySet(allFields)
            /\ \A name \in KeySet(allFields) :
                  LET decl == Lookup(allFields, name)
                      type == Lookup(result.fields.properties, name).type
                      T == inferType(decl)
                  IN  /\ ("nullable" \in DOMAIN decl /\ decl.nullable = FALSE)
                            => type = [only |-> T]
                      /\ ("nullable" \in DOMAIN decl /\ decl.nullable = TRUE)
                            => type = [union |-> <<T, "null">>]
                      /\ "nullable" \notin DOMAIN decl
                            => type = [union |-> <<T, "null">>]
                      /\ decl = [type |-> "number"]
                            => type = [union |-> <<"number", "null">>]

\* a schema with a field that opts out of null and one with no nullable key
C9_Witness ==
    /\ Returned("generateDatasetSchema")
    /\ \E name \in KeySet(result.fields.properties) :
          Lookup(result.fields.properties, name).type = [only |-> "boolean"]
    /\ \E name \in KeySet(result.fields.properties) :
          Lookup(result.fields.properties, name).type = [union |-> <<"array", "null">>]

-----------------------------------------------------------------------------
(* C10 *)

\* the first position of name in list
FirstIndex(list, name) == CHOOSE i \in 1..Len(list) : list[i] = name /\ \A j \in 1..(i - 1) : list[j] # name

\* keys are names of list, in the order in which list first has them
InListOrder(keys, list) ==
    /\ \A p \in 1..Len(keys) : \E i \in 1..Len(list) : list[i] = keys[p]
    /\ \A p, q \in 1..Len(keys) :
          p < q => FirstIndex(list, keys[p]) < FirstIndex(list, keys[q])

\* C10: for every declared view the emitted transformation.fields is the
\* declared list of field names, in its order, and the keys of
\* display.properties follow that order.
C10_ViewOrderKept ==
    Returned("generateDatasetSchema") =>
        /\ Keys(result.views) = Keys(DeclaredViews(config))
        /\ \A i \in 1..Len(DeclaredViews(config).entries) :
              LET view == DeclaredViews(config).entries[i]
                  out == Lookup(result.views, view.k)
              IN  /\ out.transformation.fields = ViewFields(view.v)
                  /\ InListOrder(Keys(out.display.properties), ViewFields(view.v))

\* a view listing site_url before price, both resolved
C10_Witness ==
    /\ Returned("generateDatasetSchema")
    /\ \E i \in 1..Len(result.views.entries) :
          /\ result.views.entries[i].v.transformation.fields = <<"site_url", "price">>
          /\ Keys(result.views.entries[i].v.display.properties) = <<"site_url", "price">>

-----------------------------------------------------------------------------
(* C11 *)

\* the names a view lists that are in the aggregated field set
ResolvedNames(viewConfig, allFields) ==
    {ViewFields(viewConfig)[j] : j \in 1..Len(ViewFields(viewConfig))} \cap KeySet(allFields)

\* the label the claim gives a field: its label, else its title, else the
\* title-cased name
ExpectedLabel(fieldName, decl) ==
    IF "label" \in DOMAIN decl THEN decl.label
    ELSE IF "title" \in DOMAIN decl THEN decl.title
    ELSE toTitleCase(fieldName)

\* C11: for every resolved field of a view, display.properties has for it
\* exactly a label and a format: the label is the declaration's label, else
\* its title, else the title-cased field name, and the format is what
\* inferFormat gives for the name and the declaration; the component of the
\* view is the declared one, else "table".  The field price declared
\* {type: "number"} gets {label: "Price", format: "text"}.
C11_DisplayProperties ==
    Returned("generateDatasetSchema") =>
        LET allFields == getAllDatasetFields(config)
        IN  \A i \in 1..Len(DeclaredViews(config).entries) :
                LET view == DeclaredViews(config).entries[i]
                    out == Lookup(result.views, view.k)
                IN  /\ out.display.component =
                          (IF "component" \in DOMAIN view.v THEN view.v.component ELSE "table")
                    /\ KeySet(out.display.properties) = ResolvedNames(view.v, allFields)
                    /\ \A n \in ResolvedNames(view.v, allFields) :
                          LET decl == Lookup(allFields, n)
                              shown == Lookup(out.display.properties, n)
                          IN  /\ DOMAIN shown = {"label", "format"}
                              /\ shown.label = ExpectedLabel(n, decl)
                              /\ shown.format = inferFormat(n, decl)
                              /\ (n = "price" /\ decl = [type |-> "number"])
                                    => shown = [label |-> "Price", format |-> "text"]

\* a view with a declared component showing a field that has a label and a
\* title
C11_Witness ==
    /\ Returned("generateDatasetSchema")
    /\ \E i \in 1..Len(DeclaredViews(config).entries) :
          LET view == DeclaredViews(config).entries[i]
          IN  /\ "component" \in DOMAIN view.v
              /\ \E n \in KeySet(Lookup(result.views, view.k).display.properties) :
                    /\ {"label", "title"} \subseteq DOMAIN Lookup(BaseFields(config), n)
                    /\ Lookup(Lookup(result.views, view.k).display.properties, n).label = "Cost"

-----------------------------------------------------------------------------
(* C12 *)

\* str ends with suffix, said without endsWith: cutting str somewhere leaves
\* suffix
HasSuffix(str, suffix) == \E cut \in 0..Len(str) : SubSeq(str, cut + 1, Len(str)) = suffix

\* C12: inferFormat applies its rules in strict priority order: a declared
\* format is returned whatever the array flag and the name; without one a
\* true array flag gives "array" whatever the name; without either a name
\* that ends with _url or is website gives "link"; else a name that ends with
\* _links gives "array"; else the format is "text".
C12_FormatPriority ==
    op = "inferFormat" =>
        LET name == config.fieldName
            decl == config.fieldConfig
            noFormat == "format" \notin DOMAIN decl
            flagged == "array" \in DOMAIN decl /\ decl.array = TRUE
            linkName == HasSuffix(name, "_url") \/ name = "website"
            linksName == HasSuffix(name, "_links")
        IN  /\ ~noFormat => result = decl.format
            /\ (noFormat /\ flagged) => result = "array"
            /\ (noFormat /\ ~flagged /\ linkName) => result = "link"
            /\ (noFormat /\ ~flagged /\ ~linkName /\ linksName) => result = "array"
            /\ (noFormat /\ ~flagged /\ ~linkName /\ ~linksName) => result = "text"

\* the array flag beating a _url name
C12_Witness ==
    /\ op = "inferFormat"
    /\ config.fieldName = "site_url"
    /\ config.fieldConfig = [array |-> TRUE]
    /\ result = "array"

-----------------------------------------------------------------------------
(* C13 *)

\* the editor the claim gives a resolved type
EditorOfType(type) ==
    CASE type \in {"integer", "number"} -> "number"
      [] type = "boolean" -> "checkbox"
      [] type = "array" -> "stringList"
      [] OTHER -> "textfield"

\* C13: inferEditor returns the declared editor if there is one, and
\* otherwise the editor of the resolved type, the type inferType returns: a
\* declaration with array: true and no type resolves to array and gets
\* "stringList".
C13_EditorOfResolvedType ==
    op = "inferEditor" =>
        result = (IF "editor" \in DOMAIN config.fieldConfig
                  THEN config.fieldConfig.editor
                  ELSE EditorOfType(inferType(config.fieldConfig)))

-----------------------------------------------------------------------------
(* C14 *)

\* out is str with every underscore turned into a space, the first character
\* of every segment in upper case and the others in lower case
TitleCased(str, out) ==
    /\ Len(out) = Len(str)
    /\ \A i \in 1..Len(str) :
          LET ch == SubSeq(str, i, i)
          IN  SubSeq(out, i, i) =
                  (IF ch = "_" THEN " "
                   ELSE IF i = 1 \/ SubSeq(str, i - 1, i - 1) = "_" THEN toUpperCase(ch)
                   ELSE toLowerCase(ch))

\* C14: toTitleCase returns, for every identifier, the empty one and those
\* with leading, trailing or consecutive underscores included, its segments
\* capitalized and joined by single spaces; start_urls gives "Start Urls", id
\* gives "Id", the empty string gives the empty string.
C14_TitleCaseTotal ==
    op = "toTitleCase" =>
        /\ TitleCased(config.fieldName, result)
        /\ config.fieldName = "start_urls" => result = "Start Urls"
        /\ config.fieldName = "id" => result = "Id"
        /\ config.fieldName = "" => result = ""

\* a name with an empty segment between two underscores
C14_Witness ==
    /\ op = "toTitleCase"
    /\ config.fieldName = "__B"
    /\ result = "  B"

-----------------------------------------------------------------------------
(* C15 *)

\* the keys the claim calls optional
OptionalKeys ==
    {"sectionCaption", "prefill", "default", "minLength", "maxLength", "minimum",
     "maximum", "enum"}

\* the keys the claim says every property has
FixedKeys == {"title", "type", "description", "editor"}

\* C15: in the input schema the property of an input field has title, type,
\* description and editor, and besides them exactly those of sectionCaption,
\* prefill, default, minLength, maxLength, minimum, maximum and enum that the
\* declaration sets, each with the declared value; a key the declaration does
\* not set is not in the property at all.
C15_OptionalKeysOnlyIfSet ==
    Returned("generateInputSchema") =>
        /\ Keys(result.properties) = Keys(InputFields(config))
        /\ \A name \in KeySet(InputFields(config)) :
              LET decl == Lookup(InputFields(config), name)
                  property == Lookup(result.properties, name)
              IN  /\ FixedKeys \subseteq DOMAIN property
                  /\ \A key \in OptionalKeys :
                        /\ key \in DOMAIN property <=> key \in DOMAIN decl
                        /\ key \in DOMAIN decl => property[key] = decl[key]
                  /\ DOMAIN property \subseteq FixedKeys \cup OptionalKeys

\* a property with a minimum (set to null in the declaration) and no maximum
C15_Witness ==
    /\ Returned("generateInputSchema")
    /\ \E name \in KeySet(result.properties) :
          /\ "minimum" \in DOMAIN Lookup(InputFields(config), name)
          /\ "maximum" \notin DOMAIN Lookup(InputFields(config), name)
          /\ "minimum" \in DOMAIN Lookup(result.properties, name)
          /\ Lookup(result.properties, name).minimum = "null"
          /\ "maximum" \notin DOMAIN Lookup(result.properties, name)

-----------------------------------------------------------------------------
(* C16 *)

\* the actor section sets key (to a text that is not empty)
ActorSets(cfg, key) ==
    /\ "actor" \in DOMAIN cfg
    /\ key \in DOMAIN cfg.actor
    /\ cfg.actor[key] # ""

\* C16: the title of the input schema is actor.title if it is set, else the
\* title-cased actor.name if it is set, else exactly "Actor Input".
C16_InputSchemaTitle ==
    Returned("generateInputSchema") =>
        result.title =
            (IF ActorSets(config, "title") THEN config.actor.title
             ELSE IF ActorSets(config, "name") THEN toTitleCase(config.actor.name)
             ELSE "Actor Input")

-----------------------------------------------------------------------------
(* C17 *)

\* the mapping o has key, bound to val
HasEntry(o, key, val) == key \in KeySet(o) /\ Lookup(o, key) = val

\* the mapping input.defaults, empty when the key is absent or null
Overlay(cfg) ==
    IF "input" \in DOMAIN cfg /\ "defaults" \in DOMAIN cfg.input /\ Truthy(cfg.input.defaults)
    THEN cfg.input.defaults
    ELSE EmptyObj

\* the JSON text of the zero-value of a type, none for the types without one
ZeroValue(type) ==
    CASE type = "boolean" -> "false"
      [] type \in {"integer", "number"} -> "0"
      [] type = "array" -> "[]"
      [] OTHER -> "none"

\* the declaration names its type itself, or has no array flag to type it
TypedByTypeKey(decl) == "type" \in DOMAIN decl \/ "array" \notin DOMAIN decl

DeclaredType(decl) == IF "type" \in DOMAIN decl THEN decl.type ELSE "string"

\* C17: generateDefaultInput derives the default of every input field (that
\* input.defaults does not set) by strict precedence: the declared default,
\* be it false, 0 or the empty string; else the declared prefill; else the
\* zero-value of the declared type, false for boolean, 0 for integer and
\* number, the empty list for array; else the field has no entry.
C17_DefaultPrecedence ==
    Returned("generateDefaultInput") =>
        \A name \in KeySet(InputFields(config)) \ KeySet(Overlay(config)) :
            LET decl == Lookup(InputFields(config), name)
            IN  IF "default" \in DOMAIN decl THEN HasEntry(result, name, decl.default)
                ELSE IF "prefill" \in DOMAIN decl THEN HasEntry(result, name, decl.prefill)
                ELSE TypedByTypeKey(decl) =>
                        IF ZeroValue(DeclaredType(decl)) # "none"
                        THEN HasEntry(result, name, ZeroValue(DeclaredType(decl)))
                        ELSE name \notin KeySet(result)

\* a field whose default outranks its prefill, beside one whose default, the
\* empty string, outranks its prefill too
C17_Witness ==
    /\ Returned("generateDefaultInput")
    /\ Overlay(config) = EmptyObj
    /\ \E name \in KeySet(InputFields(config)) :
          /\ Lookup(InputFields(config), name) =
                 [type |-> "boolean", default |-> "true", prefill |-> "false"]
          /\ HasEntry(result, name, "true")
    /\ \E name \in KeySet(InputFields(config)) :
          /\ Lookup(InputFields(config), name) =
                 [type |-> "string", default |-> "\"\"", prefill |-> "\"p\""]
          /\ HasEntry(result, name, "\"\"")

-----------------------------------------------------------------------------
(* C18 *)

\* C18: the deriver picks the zero-value by the type inferType resolves: a
\* field without default and prefill (that input.defaults does not set) gets
\* the zero-value of its resolved type, so a declaration {array: true} gets
\* the empty list.
C18_ZeroOfResolvedType ==
    Returned("generateDefaultInput") =>
        \A name \in KeySet(InputFields(config)) \ KeySet(Overlay(config)) :
            LET decl == Lookup(InputFields(config), name)
            IN  ({"default", "prefill"} \cap DOMAIN decl = {}) =>
                    IF ZeroValue(inferType(decl)) # "none"
                    THEN HasEntry(result, name, ZeroValue(inferType(decl)))
                    ELSE name \notin KeySet(result)

-----------------------------------------------------------------------------
(* C19 *)

\* cfg without the key input.defaults
WithoutOverlay(cfg) ==
    IF "input" \in DOMAIN cfg /\ "defaults" \in DOMAIN cfg.input
    THEN [cfg EXCEPT !.input = [key \in DOMAIN cfg.input \ {"defaults"} |-> cfg.input[key]]]
    ELSE cfg

\* C19: input.defaults is overlaid last: every key of input.defaults is in
\* the result with the value input.defaults gives it, be the key an input
\* field with a derived value or not, and every derived entry whose key is not
\* in input.defaults is as derived; the result has no other key.
C19_OverlayLast ==
    Returned("generateDefaultInput") =>
        LET derived == generateDefaultInput(WithoutOverlay(config))
        IN  /\ KeySet(result) = KeySet(derived) \cup KeySet(Overlay(config))
            /\ \A key \in KeySet(Overlay(config)) :
                  HasEntry(result, key, Lookup(Overlay(config), key))
            /\ \A key \in KeySet(derived) \ KeySet(Overlay(config)) :
                  HasEntry(result, key, Lookup(derived, key))

\* an overlay that overwrites a derived value and adds a key that is no
\* input field
C19_Witness ==
    /\ Returned("generateDefaultInput")
    /\ \E key \in KeySet(Overlay(config)) :
          /\ key \in KeySet(generateDefaultInput(WithoutOverlay(config)))
          /\ ~HasEntry(result, key, Lookup(generateDefaultInput(WithoutOverlay(config)), key))
    /\ \E key \in KeySet(Overlay(config)) : key \notin KeySet(InputFields(config))
    /\ \E key \in KeySet(result) : key \notin KeySet(Overlay(config))

-----------------------------------------------------------------------------
(* C20 *)

Repeatable ==
    {"generateActorJson", "generateInputSchema", "generateDatasetSchema",
     "generateOutputSchema", "generateDefaultInput", "validate"}

-----------------------------------------------------------------------------
(* C21 *)

\* C21: the raw config is never mutated: no call of getAllDatasetFields,
\* getInputGroupMapping, validate, a generator or generateDefaultInput changes
\* the config tree the manager holds, so after any sequence of calls it is
\* what it was at construction.
C21_ConfigNeverMutated == [][config' = config]_vars

\* the aggregator having returned a field tagged with its group, while the
\* group's declaration in the config has no _fromGroup key
C21_Witness ==
    /\ Returned("getAllDatasetFields")
    /\ Truthy(Lookup(DatasetSection(config), "fields"))
    /\ \E name \in GroupFieldNames(config) :
          /\ "_fromGroup" \in DOMAIN Lookup(result, name)
          /\ \A g \in GroupsDeclaring(config, name) :
                "_fromGroup" \notin DOMAIN Lookup(FieldGroups(config).entries[g].v, name)

-----------------------------------------------------------------------------
(* C22 *)

\* the key generateAllSchemas gives the document of a generator
DocumentKey ==
    [generateActorJson |-> "actor", generateInputSchema |-> "inputSchema",
     generateDatasetSchema |-> "datasetSchema", generateOutputSchema |-> "outputSchema"]

-----------------------------------------------------------------------------
(* C23 *)

\* s is a prefix of t
IsPrefix(s, t) == Len(s) <= Len(t) /\ SubSeq(t, 1, Len(s)) = s

\* C23: in the gen-schemas command a file is written only when validate has
\* returned valid, the four documents have all been generated and dry-run is
\* off; the files are written in the order actor.json, input_schema.json,
\* dataset_schema.json, output_schema.json, each with its document; after an
\* invalid validation no generator has run and no file is written, in dry-run
\* mode no file is written, and after a generator has thrown no file is
\* written.
C23_WritesOnlyAfterAll ==
    /\ files # <<>> =>
          /\ ~dryRun
          /\ ~IsRaise(validate(config))
          /\ validate(config).valid
          /\ ~IsRaise(result)
          /\ result = generateAllSchemas(config)
          /\ IsPrefix(files, SchemaFiles(result))
          /\ [i \in 1..Len(files) |-> files[i].path]
                = SubSeq(<<".actor/actor.json", ".actor/input_schema.json",
                           ".actor/dataset_schema.json", ".actor/output_schema.json">>,
                         1, Len(files))
    /\ op = "exit invalid" =>
          /\ files = <<>>
          /\ DOMAIN result = {"valid", "errors"}
          /\ result.valid = FALSE
    /\ dryRun => files = <<>>
    /\ (op = "exit error" /\ IsRaise(result)) => files = <<>>

\* the command done with its four files written
C23_Witness ==
    /\ op = "done"
    /\ ~dryRun
    /\ Len(files) = 4
    /\ files[4].path = ".actor/output_schema.json"

-----------------------------------------------------------------------------
(* C24 *)

\* the elements of a list
Range(list) == {list[i] : i \in 1..Len(list)}

\* C24: validate and the dataset generator agree on dangling references: for
\* every view v and every name f its field list has, validate reports
\* View 'v' references unknown field 'f' if and only if generateDatasetSchema
\* leaves f out of the display.properties of v, where f is in
\* transformation.fields all the same; when validate returns valid, the
\* display.properties of every view have exactly the names of its
\* transformation.fields.
C24_ValidatorAgreesWithGenerator ==
    (Returned("validate") /\ ~IsNull(config) /\ ~IsRaise(generateDatasetSchema(config))) =>
        LET document == generateDatasetSchema(config)
        IN  /\ \A place \in ViewPlaces(config) :
                  LET viewName == DeclaredViews(config).entries[place[1]].k
                      fieldName == ListedAt(config, place)
                      out == Lookup(document.views, viewName)
                  IN  /\ ErrUnknownField(viewName, fieldName) \in Range(result.errors)
                            <=> fieldName \notin KeySet(out.display.properties)
                      /\ fieldName \in Range(out.transformation.fields)
            /\ result.valid =>
                  \A i \in 1..Len(document.views.entries) :
                      LET out == document.views.entries[i].v
                      IN  KeySet(out.display.properties) = Range(out.transformation.fields)

\* a view that lists a declared field and a dangling one: one error, one
\* display property
C24_Witness ==
    /\ Returned("validate")
    /\ ~IsNull(config)
    /\ ~IsRaise(generateDatasetSchema(config))
    /\ \E place \in DanglingPlaces(config) :
          LET view == DeclaredViews(config).entries[place[1]]
          IN  /\ ErrUnknownField(view.k, ListedAt(config, place)) \in Range(result.errors)
              /\ Len(Lookup(generateDatasetSchema(config).views, view.k)
                        .display.properties.entries) > 0

-----------------------------------------------------------------------------
(* C25 *)

\* sub is got from list by leaving elements out
RECURSIVE IsSubsequence(_, _)
IsSubsequence(sub, list) ==
    IF Len(sub) = 0 THEN TRUE
    ELSE IF Len(list) = 0 THEN FALSE
    ELSE IF Head(sub) = Head(list) THEN IsSubsequence(Tail(sub), Tail(list))
    ELSE IsSubsequence(sub, Tail(list))

\* the unknown-field message of every place of a view field list, in view
\* declaration order and, within a view, in field-list order
RECURSIVE ViewMessagesFrom(_, _)
ViewMessagesFrom(cfg, i) ==
    IF i > Len(DeclaredViews(cfg).entries) THEN <<>>
    ELSE LET view == DeclaredViews(cfg).entries[i]
             listed == IF Truthy(view.v) THEN ViewFields(view.v) ELSE <<>>
         IN  [j \in 1..Len(listed) |-> ErrUnknownField(view.k, listed[j])]
                 \o ViewMessagesFrom(cfg, i + 1)

\* the unknown-group message of every input field that names a group, in
\* input field declaration order
RECURSIVE GroupMessagesFrom(_, _)
GroupMessagesFrom(cfg, i) ==
    IF i > Len(InputFields(cfg).entries) THEN <<>>
    ELSE LET field == InputFields(cfg).entries[i]
         IN  (IF Truthy(field.v) /\ "group" \in DOMAIN field.v
              THEN <<ErrUnknownGroup(field.k, field.v.group)>>
              ELSE <<>>) \o GroupMessagesFrom(cfg, i + 1)

\* C25: the result of validate is well-formed and ordered: valid is true
\* exactly when errors is empty, and errors is the missing-actor.name error
\* (if reported) first, then unknown-view-field errors in view declaration
\* order and within a view in field-list order, then unknown-field-group
\* errors in input field declaration order.
C25_ErrorsOrdered ==
    Returned("validate") =>
        /\ DOMAIN result = {"valid", "errors"}
        /\ result.valid = (result.errors = <<>>)
        /\ ~IsNull(config) =>
              LET errors == result.errors
                  named == IF errors # <<>> /\ errors[1] = ErrMissingName THEN 1 ELSE 0
                  viewMessages == ViewMessagesFrom(config, 1)
                  groupMessages == GroupMessagesFrom(config, 1)
                  ofViews == Cardinality({i \in 1..Len(errors) :
                                             errors[i] \in Range(viewMessages)})
              IN  /\ \A i \in 2..Len(errors) : errors[i] # ErrMissingName
                  /\ IsSubsequence(SubSeq(errors, named + 1, named + ofViews), viewMessages)
                  /\ IsSubsequence(SubSeq(errors, named + ofViews + 1, Len(errors)),
                                   groupMessages)

\* a result with the three kinds of error, two of them unknown view fields
C25_Witness ==
    /\ Returned("validate")
    /\ ~IsNull(config)
    /\ Len(result.errors) >= 4
    /\ result.errors[1] = ErrMissingName
    /\ result.errors[2] \in Range(ViewMessagesFrom(config, 1))
    /\ result.errors[3] \in Range(ViewMessagesFrom(config, 1))
    /\ result.errors[2] # result.errors[3]
    /\ result.errors[Len(result.errors)] \in Range(GroupMessagesFrom(config, 1))

====
